---- MODULE Spec2Model ----
(***************************************************************************)
(* Model of the NDJSON stream reader ollamaChatStreamWordByWord of         *)
(* src/app/components/AIAssistantPage.tsx: one invocation reading one      *)
(* HTTP response body chunk by chunk and calling onToken.                  *)
(*                                                                         *)
(* Text is a sequence of one-character strings.  The wire carries bytes:   *)
(* an ASCII character is its own byte, U+00E9 is the two bytes C3 A9.      *)
(* A JSON record {"message":{"content":"X"},"done":true} is written        *)
(* {"X"T} : the quoted string is the message.content member, T / F is the  *)
(* done member, and either member may be absent.                           *)
(***************************************************************************)
EXTENDS Naturals, Sequences, FiniteSets

\* ------------------------------------------------------------------ bounds
MaxLines == 3
MaxChunk == 3

\* -------------------------------------------------------------- characters
LF == "\n"
CR == "\r"
SP == " "
QUOTE == "\""
BSL == "\\"
EACUTE == "U+00E9"
REPLACEMENT == "U+FFFD"

\* /\s/ and String.prototype.trim agree on these characters
IsSpace(c) == c \in {SP, LF, CR, "\t"}

Last(s) == s[Len(s)]
Front(s) == SubSeq(s, 1, Len(s) - 1)

RECURSIVE Flatten(_)
Flatten(ss) == IF ss = <<>> THEN <<>> ELSE Head(ss) \o Flatten(Tail(ss))

\* ------------------------------------------------- the server side (input)
\* JSON string escaping of one content character
EscapeChar(c) ==
  IF c = LF THEN <<BSL, "n">>
  ELSE IF c = QUOTE THEN <<BSL, QUOTE>>
  ELSE IF c = BSL THEN <<BSL, BSL>>
  ELSE <<c>>

RECURSIVE EscapeString(_)
EscapeString(s) == IF s = <<>> THEN <<>> ELSE EscapeChar(Head(s)) \o EscapeString(Tail(s))

\* UTF-8 encoding of one character
Utf8EncodeChar(c) == IF c = EACUTE THEN <<"C3", "A9">> ELSE <<c>>

RECURSIVE Utf8Encode(_)
Utf8Encode(s) == IF s = <<>> THEN <<>> ELSE Utf8EncodeChar(Head(s)) \o Utf8Encode(Tail(s))

\* A stream item is a record (message.content and done, each possibly
\* absent) or a raw line that is not a record.
Rec(hasContent, content, done) ==
  [kind |-> "rec", hasContent |-> hasContent, content |-> content, done |-> done]
Raw(text) == [kind |-> "raw", text |-> text]

\* the text of one line, without its newline
EncodeItem(it) ==
  IF it.kind = "raw" THEN it.text
  ELSE <<"{">>
       \o (IF it.hasContent THEN <<QUOTE>> \o EscapeString(it.content) \o <<QUOTE>> ELSE <<>>)
       \o (IF it.done = "true" THEN <<"T">> ELSE IF it.done = "false" THEN <<"F">> ELSE <<>>)
       \o <<"}">>

RECURSIVE EncodeLines(_)
EncodeLines(items) ==
  IF items = <<>> THEN <<>>
  ELSE Utf8Encode(EncodeItem(Head(items))) \o <<LF>> \o EncodeLines(Tail(items))

\* ------------------------------------------------------------- the reader
\* TextDecoder("utf-8").decode(value, { stream: true }): part is the
\* incomplete sequence kept from the previous call.
RECURSIVE Utf8Decode(_, _, _)
Utf8Decode(part, bytes, out) ==
  IF bytes = <<>> THEN [text |-> out, partial |-> part]
  ELSE LET b == Head(bytes) IN
    IF part # <<>>
    THEN IF b = "A9" THEN Utf8Decode(<<>>, Tail(bytes), Append(out, EACUTE))
         ELSE Utf8Decode(<<>>, bytes, Append(out, REPLACEMENT))
    ELSE IF b = "C3" THEN Utf8Decode(<<b>>, Tail(bytes), out)
    ELSE IF b = "A9" THEN Utf8Decode(<<>>, Tail(bytes), Append(out, REPLACEMENT))
    ELSE Utf8Decode(<<>>, Tail(bytes), Append(out, b))

\* buffer.split("\n"): never empty, the last element is the text after
\* the last newline
RECURSIVE SplitNewline(_, _, _)
SplitNewline(s, lines, cur) ==
  IF s = <<>> THEN Append(lines, cur)
  ELSE IF Head(s) = LF THEN SplitNewline(Tail(s), Append(lines, cur), <<>>)
  ELSE SplitNewline(Tail(s), lines, Append(cur, Head(s)))

RECURSIVE TrimStart(_)
TrimStart(s) == IF s # <<>> /\ IsSpace(Head(s)) THEN TrimStart(Tail(s)) ELSE s

RECURSIVE TrimEnd(_)
TrimEnd(s) == IF s # <<>> /\ IsSpace(Last(s)) THEN TrimEnd(Front(s)) ELSE s

\* line.trim()
Trim(s) == TrimEnd(TrimStart(s))


\* a JSON string after its opening quote: the unescaped characters up to
\* the closing quote and the text that follows it
RECURSIVE ParseString(_, _)
ParseString(s, acc) ==
  IF s = <<>> THEN [ok |-> FALSE, content |-> <<>>, rest |-> <<>>]
  ELSE IF Head(s) = QUOTE THEN [ok |-> TRUE, content |-> acc, rest |-> Tail(s)]
  ELSE IF Head(s) = BSL
    THEN IF Len(s) >= 2 /\ s[2] \in {"n", QUOTE, BSL}
         THEN ParseString(SubSeq(s, 3, Len(s)), Append(acc, IF s[2] = "n" THEN LF ELSE s[2]))
         ELSE [ok |-> FALSE, content |-> <<>>, rest |-> <<>>]
  ELSE IF Head(s) \in {LF, CR, "\t"} THEN [ok |-> FALSE, content |-> <<>>, rest |-> <<>>]
  ELSE ParseString(Tail(s), Append(acc, Head(s)))

NotJSON == [ok |-> FALSE, hasContent |-> FALSE, content |-> <<>>, done |-> "absent"]

\* JSON.parse(trimmed): a SyntaxError is ok = FALSE; the scalar 0 is valid
\* JSON with no members
JSONparse(t) ==
  LET s0 == TrimStart(t) IN
  IF s0 = <<>> THEN NotJSON
  ELSE IF Head(s0) = "0"
    THEN IF TrimStart(Tail(s0)) = <<>>
         THEN [ok |-> TRUE, hasContent |-> FALSE, content |-> <<>>, done |-> "absent"]
         ELSE NotJSON
  ELSE IF Head(s0) # "{" THEN NotJSON
  ELSE
    LET s1 == TrimStart(Tail(s0))
        hasStr == s1 # <<>> /\ Head(s1) = QUOTE
        str == IF hasStr THEN ParseString(Tail(s1), <<>>)
               ELSE [ok |-> TRUE, content |-> <<>>, rest |-> s1]
        s2 == TrimStart(str.rest)
        hasDone == s2 # <<>> /\ Head(s2) \in {"T", "F"}
        s3 == IF hasDone THEN TrimStart(Tail(s2)) ELSE s2
    IN IF str.ok /\ s3 # <<>> /\ Head(s3) = "}" /\ TrimStart(Tail(s3)) = <<>>
       THEN [ok |-> TRUE, hasContent |-> hasStr, content |-> str.content,
             done |-> IF hasDone THEN (IF Head(s2) = "T" THEN "true" ELSE "false") ELSE "absent"]
       ELSE NotJSON

\* pending.split(/(\s+)/): runs of non-whitespace and of whitespace in
\* turn; the first and the last piece are non-whitespace runs, possibly
\* empty
RECURSIVE SplitRuns(_, _, _)
SplitRuns(s, parts, cur) ==
  IF s = <<>>
  THEN IF Len(parts) % 2 = 0 THEN Append(parts, cur) ELSE Append(Append(parts, cur), <<>>)
  ELSE IF IsSpace(Head(s)) = (Len(parts) % 2 = 1)
    THEN SplitRuns(Tail(s), parts, Append(cur, Head(s)))
    ELSE SplitRuns(Tail(s), Append(parts, cur), <<Head(s)>>)

\* variant: every whitespace run collapsed to one space
SplitWordsCollapsing(s) ==
  LET parts == SplitRuns(s, <<>>, <<>>) IN
  [i \in DOMAIN parts |-> IF i % 2 = 0 THEN <<SP>> ELSE parts[i]]

SplitWords(s) == SplitRuns(s, <<>>, <<>>)

\* variant: a loop without the part.length test
RECURSIVE EmitPartsAll(_, _)
EmitPartsAll(toks, parts) ==
  IF parts = <<>> THEN toks
  ELSE EmitPartsAll(Append(toks, Head(parts)), Tail(parts))

\* for (const part of parts) if (part.length) opts.onToken(part)
RECURSIVE EmitParts(_, _)
EmitParts(toks, parts) ==
  IF parts = <<>> THEN toks
  ELSE EmitParts(IF Head(parts) # <<>> THEN Append(toks, Head(parts)) ELSE toks, Tail(parts))

\* variant: every piece is emitted, none is withheld
AppendChunkEmittingAll(st, chunk) ==
  IF chunk = <<>> THEN st
  ELSE LET parts == SplitWords(st.pending \o chunk) IN
       [st EXCEPT !.pending = <<>>, !.tokens = EmitParts(st.tokens, parts)]

\* variant: a record without text ends the current word
AppendChunkFlushingEmpty(st, chunk) ==
  IF chunk = <<>>
  THEN [st EXCEPT !.pending = <<>>, !.tokens = EmitParts(st.tokens, <<st.pending>>)]
  ELSE LET parts == SplitWords(st.pending \o chunk) IN
       [st EXCEPT !.pending = Last(parts), !.tokens = EmitParts(st.tokens, Front(parts))]

\* The reader state that the line loop changes: pending, the onToken calls
\* made so far, and whether (and after how many calls) a completion flag
\* has been processed.
\* if (chunk) { pending += chunk; split; keep the last piece; emit the rest }
AppendChunk(st, chunk) ==
  IF chunk = <<>> THEN st
  ELSE LET parts == SplitWords(st.pending \o chunk) IN
       [st EXCEPT !.pending = Last(parts), !.tokens = EmitParts(st.tokens, Front(parts))]

\* variant: the flush on a completion flag leaves pending as it is
FlushDoneKeeping(st) ==
  LET flushed == IF st.pending # <<>>
                 THEN [st EXCEPT !.tokens = Append(st.tokens, st.pending)]
                 ELSE st
  IN IF st.doneSeen THEN flushed
     ELSE [flushed EXCEPT !.doneSeen = TRUE, !.doneAt = Len(flushed.tokens)]

\* if (doneFlag) { if (pending) { opts.onToken(pending); pending = "" } }
\* (doneSeen and doneAt record the first time this branch is taken)
FlushDone(st) ==
  LET flushed == IF st.pending # <<>>
                 THEN [st EXCEPT !.tokens = Append(st.tokens, st.pending), !.pending = <<>>]
                 ELSE st
  IN IF st.doneSeen THEN flushed
     ELSE [flushed EXCEPT !.doneSeen = TRUE, !.doneAt = Len(flushed.tokens)]

\* the body of the for loop, after a successful JSON.parse
ProcessRecord(st, obj) ==
  LET chunk == IF obj.hasContent THEN obj.content ELSE <<>>
      doneFlag == obj.done = "true"
      st1 == AppendChunk(st, chunk)
  IN IF doneFlag THEN FlushDone(st1) ELSE st1

\* variant: a line that fails to parse also resets pending
ProcessLineResetting(st, line) ==
  LET trimmed == Trim(line) IN
  IF trimmed = <<>> THEN st
  ELSE LET obj == JSONparse(trimmed) IN
       IF ~obj.ok THEN [st EXCEPT !.pending = <<>>] ELSE ProcessRecord(st, obj)

\* one iteration of for (const line of lines)
ProcessLine(st, line) ==
  LET trimmed == Trim(line) IN
  IF trimmed = <<>> THEN st
  ELSE LET obj == JSONparse(trimmed) IN
       IF ~obj.ok THEN st ELSE ProcessRecord(st, obj)

\* for (const line of lines)
RECURSIVE ProcessLines(_, _)
ProcessLines(st, lines) ==
  IF lines = <<>> THEN st ELSE ProcessLines(ProcessLine(st, Head(lines)), Tail(lines))

\* variant: the text after the last newline is not kept for the next chunk
LineFramingDropping(text) ==
  LET all == SplitNewline(text, <<>>, <<>>) IN
  [lines |-> Front(all), buffer |-> <<>>]

\* variant: the text after the last newline is also handed to the line loop
LineFramingEager(text) ==
  LET all == SplitNewline(text, <<>>, <<>>) IN
  [lines |-> all, buffer |-> Last(all)]

\* const lines = buffer.split("\n"); buffer = lines.pop() || ""
LineFraming(text) ==
  LET all == SplitNewline(text, <<>>, <<>>) IN
  [lines |-> Front(all), buffer |-> Last(all)]

\* The state of one invocation: the decoder's incomplete byte sequence,
\* buffer, pending, the arguments of the onToken calls in call order, and
\* whether (and after how many calls) a completion flag has been processed.
NewReader ==
  [partial |-> <<>>, buffer |-> <<>>, pending |-> <<>>, tokens |-> <<>>,
   doneSeen |-> FALSE, doneAt |-> 0]

\* one pass of the while loop for a chunk: decode, frame, process the lines
ReadStep(rd, value) ==
  LET dec == Utf8Decode(rd.partial, value, <<>>)
      fr == LineFraming(rd.buffer \o dec.text)
      st == ProcessLines([pending |-> rd.pending, tokens |-> rd.tokens,
                          doneSeen |-> rd.doneSeen, doneAt |-> rd.doneAt], fr.lines)
  IN [partial |-> dec.partial, buffer |-> fr.buffer, pending |-> st.pending,
      tokens |-> st.tokens, doneSeen |-> st.doneSeen, doneAt |-> st.doneAt]

\* variant: no flush after the loop
FinalFlushNone(p, toks) == toks

\* after the loop: if (pending) opts.onToken(pending)
FinalFlush(p, toks) == IF p # <<>> THEN Append(toks, p) ELSE toks

\* ---------------------------------------------------------------- inputs
Hello == <<"h", "e", "l", "l", "o">>

Items ==
  { Rec(TRUE, <<"a">>, "false"),
    Rec(TRUE, <<SP, SP>>, "false"),
    Rec(TRUE, <<"b">>, "true"),
    Rec(TRUE, Hello, "true"),
    Rec(TRUE, <<"c", LF, EACUTE>>, "absent"),
    Rec(FALSE, <<>>, "true"),
    Raw(<<"{", QUOTE, "a">>),
    Raw(<<CR>>) }

\* text after the last newline of the body: nothing, or a last line
\* (counted in MaxLines) that the server did not terminate
Tails == { <<>>, <<"{", QUOTE, "b", QUOTE, "T", "}">> }

\* records that contribute nothing, with a word and a whitespace run
QuietItems ==
  { Rec(TRUE, <<"a">>, "false"),
    Rec(TRUE, <<SP, SP>>, "false"),
    Rec(FALSE, <<>>, "absent"),
    Rec(TRUE, <<>>, "false"),
    Raw(<<CR>>) }

\* a word that arrives in two records
Bon == <<"B", "o", "n">>
Jour == <<"j", "o", "u", "r", SP>>
WordItems == { Rec(TRUE, Bon, "false"), Rec(TRUE, Jour, "false") }

ItemSeqs ==
  UNION { [1..n -> Items] \cup [1..n -> QuietItems] \cup [1..n -> WordItems] : n \in 0..MaxLines }

\* what await fetch(...) gives: a rejection, an error status, a success
\* status without a body, or a success status with a body
Responses == {"network_error", "http_error", "no_body", "body"}

VARIABLES
  sent,       \* the lines the server wrote into the body
  tail,       \* the text the server wrote after the last newline
  body,       \* the bytes of the response body
  res,        \* the kind of response
  pos,        \* how many bytes of the body reader.read() has delivered
  aborted,    \* opts.signal.aborted
  pc,         \* "fetching", "reading", "returned" or "thrown"
  error,      \* the error thrown, "none" if none
  rd,         \* the reader state, see NewReader
  closed      \* the body stream is closed: its end had arrived when the
              \* last chunk was read

\* The chat page (AIAssistantPage) around the reader: handleSend, stopAI
\* and the streaming reads they start.
VARIABLES
  mode,       \* "faq" or "ollama"
  isTyping,   \* the isTyping state
  abortRef,   \* abortRef.current: 0 for null, else the handleSend call whose
              \* controller it holds
  messages,   \* the message list
  nsends,     \* how many handleSend calls have passed their guards
  calls       \* per handleSend call: where it stands, and its streaming read

ui == <<mode, isTyping, abortRef, messages, nsends, calls>>

\* one request to GET /api/tickets/:paymentIntentId/pdf of the backend
VARIABLES
  ticket

\* The other parts of the application: the second stream reader
\* (ollamaChatStream) reading the same body, the payment form
\* (CheckoutForm) and the loading of the data bound to the session (App).
VARIABLES
  chat,       \* the state of an ollamaChatStream invocation, see NewStream
  pay,        \* one handlePay call of CheckoutForm
  auth        \* refreshAuthBoundData of App and its callers

others == <<chat, pay, auth>>

vars == <<sent, tail, body, res, pos, aborted, pc, error, rd, closed, ui, ticket, others>>

buffer == rd.buffer
pending == rd.pending
tokens == rd.tokens
doneSeen == rd.doneSeen

\* bounds of the chat page model
MaxSends == 2
UIChunk == 10

OLLAMA_MODEL == "llama3.1:latest"
DefaultMessage == <<"FanBot">>

\* a handleSend call that has not happened
NoCall ==
  [hs |-> "unused", mode |-> "faq", result |-> "none", pc |-> "none", res |-> "body",
   body |-> <<>>, pos |-> 0, aborted |-> FALSE, error |-> "none", rd |-> NewReader, acc |-> <<>>]

\* the page after its first render
PageInit ==
  /\ mode = "faq"
  /\ isTyping = FALSE
  /\ abortRef = 0
  /\ messages = <<[of |-> 0, kind |-> "faq", content |-> DefaultMessage]>>
  /\ nsends = 0
  /\ calls = [i \in 1..MaxSends |-> NoCall]

\* ollamaChatStream before its first read: let buffer = ''
NewStream == [partial |-> <<>>, buffer |-> <<>>, tokens |-> <<>>, pc |-> "reading"]

\* CheckoutForm before a click on the pay button
NoPay ==
  [stripe |-> TRUE, name |-> <<"a">>, email |-> <<"a">>, card |-> TRUE,
   server |-> "ok", secret |-> TRUE, id |-> TRUE, confirm |-> "succeeded",
   pc |-> "idle", busy |-> FALSE, onSuccess |-> <<>>, toast |-> "none"]

MaxRuns == 3
MaxJoin == 2

\* App after its first render: inFlightAuthRef.current null (0), no run of
\* refreshAuthBoundData yet, profile null
NoAuth ==
  [inFlightAuthRef |-> 0, nruns |-> 0, profile |-> "null", last |-> "none",
   runs |-> [k \in 1..MaxRuns |-> [run |-> "none", getProfile |-> "none", joined |-> 0]]]

RestIdle == chat = NewStream /\ pay = NoPay /\ auth = NoAuth

\* the request before it arrives: nothing answered
NoTicket ==
  [key |-> TRUE, param |-> <<"p">>, stripe |-> "succeeded", qr |-> "ok", pdf |-> "ok",
   pc |-> "idle", status |-> 200, contentType |-> "none", sent |-> "none"]

Init ==
  /\ PageInit
  /\ ticket = NoTicket
  /\ RestIdle
  /\ res \in Responses
  /\ sent \in (IF res = "body" THEN ItemSeqs ELSE {<<>>})
  /\ tail \in (IF res = "body" /\ Len(sent) < MaxLines THEN Tails ELSE {<<>>})
  /\ body = EncodeLines(sent) \o Utf8Encode(tail)
  /\ pos = 0
  /\ aborted = FALSE
  /\ pc = "fetching"
  /\ error = "none"
  /\ rd = NewReader
  /\ closed = FALSE

input == <<sent, tail, body, res>>

Throw(e) == pc' = "thrown" /\ error' = e

\* controller.abort() by the caller while the invocation is suspended.
\* The signal is handed to fetch (signal: opts.signal): once it is aborted
\* the pending fetch or read rejects with AbortError and delivers nothing
\* more, hence the ~aborted guards below.  A closed stream is not affected
\* by the signal, and a read of it does not stay pending.
Abort ==
  /\ pc \in {"fetching", "reading"}
  /\ ~aborted
  /\ ~closed
  /\ aborted' = TRUE
  /\ UNCHANGED <<ui, ticket, others, input, closed, pos, pc, error, rd>>

\* variant: no check of res.body
FetchResolveUnchecked ==
  /\ pc = "fetching"
  /\ ~aborted
  /\ res # "network_error"
  /\ IF res = "http_error" THEN Throw("HTTP")
     ELSE pc' = "reading" /\ error' = error
  /\ UNCHANGED <<ui, ticket, others, input, closed, pos, aborted, rd>>

\* await fetch(...) resolves; the status and body checks; getReader()
FetchResolve ==
  /\ pc = "fetching"
  /\ ~aborted
  /\ res # "network_error"
  /\ IF res = "http_error" THEN Throw("HTTP")
     ELSE IF res = "no_body" THEN Throw("NO_STREAM_BODY")
     ELSE pc' = "reading" /\ error' = error
  /\ UNCHANGED <<ui, ticket, others, input, closed, pos, aborted, rd>>

\* await fetch(...) rejects: the signal was aborted
FetchAbort ==
  /\ pc = "fetching"
  /\ aborted
  /\ Throw("AbortError")
  /\ UNCHANGED <<ui, ticket, others, input, closed, pos, aborted, rd>>

\* await fetch(...) rejects: the request failed
FetchFail ==
  /\ pc = "fetching"
  /\ ~aborted
  /\ res = "network_error"
  /\ Throw("FetchFailure")
  /\ UNCHANGED <<ui, ticket, others, input, closed, pos, aborted, rd>>

\* await reader.read() gives the next n bytes: one pass of the while loop
ReadChunk(n) ==
  /\ pc = "reading"
  /\ ~aborted
  /\ pos + n <= Len(body)
  /\ rd' = ReadStep(rd, SubSeq(body, pos + 1, pos + n))
  /\ pos' = pos + n
  /\ closed' \in (IF pos + n = Len(body) THEN BOOLEAN ELSE {FALSE})
  /\ UNCHANGED <<ui, ticket, others, input, aborted, pc, error>>

\* the same pass when an onToken call of this chunk activates the signal:
\* nothing in the loop looks at the signal
ReadChunkAborting(n) ==
  /\ pc = "reading"
  /\ ~aborted
  /\ pos + n <= Len(body)
  /\ ReadStep(rd, SubSeq(body, pos + 1, pos + n)).tokens # rd.tokens
  /\ rd' = ReadStep(rd, SubSeq(body, pos + 1, pos + n))
  /\ aborted' = TRUE
  /\ pos' = pos + n
  /\ closed' \in (IF pos + n = Len(body) THEN BOOLEAN ELSE {FALSE})
  /\ UNCHANGED <<ui, ticket, others, input, pc, error>>

\* variant: what is left in buffer is parsed as a last line before the flush
ReadDoneParsing ==
  /\ pc = "reading"
  /\ ~aborted \/ closed
  /\ pos = Len(body)
  /\ LET st == ProcessLine([pending |-> rd.pending, tokens |-> rd.tokens,
                            doneSeen |-> rd.doneSeen, doneAt |-> rd.doneAt], rd.buffer)
     IN rd' = [rd EXCEPT !.pending = st.pending, !.doneSeen = st.doneSeen, !.doneAt = st.doneAt,
                         !.tokens = FinalFlush(st.pending, st.tokens)]
  /\ pc' = "returned"
  /\ UNCHANGED <<ui, ticket, others, input, closed, pos, aborted, error>>

\* await reader.read() reports done: break, final flush, return
ReadDone ==
  /\ pc = "reading"
  /\ ~aborted \/ closed
  /\ pos = Len(body)
  /\ rd' = [rd EXCEPT !.tokens = FinalFlush(rd.pending, rd.tokens)]
  /\ pc' = "returned"
  /\ UNCHANGED <<ui, ticket, others, input, closed, pos, aborted, error>>

\* variant: pending is flushed before the AbortError leaves
ReadAbortFlushing ==
  /\ pc = "reading"
  /\ aborted
  /\ ~closed
  /\ rd' = [rd EXCEPT !.tokens = FinalFlush(rd.pending, rd.tokens)]
  /\ Throw("AbortError")
  /\ UNCHANGED <<ui, ticket, others, input, closed, pos, aborted>>

\* await reader.read() rejects because the signal was aborted
ReadAbort ==
  /\ pc = "reading"
  /\ aborted
  /\ ~closed
  /\ Throw("AbortError")
  /\ UNCHANGED <<ui, ticket, others, input, closed, pos, aborted, rd>>

\* variant: pending is flushed before the failure leaves
ReadFailFlushing ==
  /\ pc = "reading"
  /\ ~aborted
  /\ ~closed
  /\ rd' = [rd EXCEPT !.tokens = FinalFlush(rd.pending, rd.tokens)]
  /\ Throw("TransportFailure")
  /\ UNCHANGED <<ui, ticket, others, input, closed, pos, aborted>>

\* await reader.read() rejects for another reason
ReadFail ==
  /\ pc = "reading"
  /\ ~aborted
  /\ ~closed
  /\ Throw("TransportFailure")
  /\ UNCHANGED <<ui, ticket, others, input, closed, pos, aborted, rd>>

Next ==
  \/ Abort
  \/ FetchResolve
  \/ FetchAbort
  \/ FetchFail
  \/ \E n \in 1..MaxChunk : ReadChunk(n)
  \/ \E n \in 1..MaxChunk : ReadChunkAborting(n)
  \/ ReadDone
  \/ ReadAbort
  \/ ReadFail

Spec == Init /\ [][Next]_vars

TypeOK ==
  /\ pc \in {"fetching", "reading", "returned", "thrown"}
  /\ error \in {"none", "HTTP", "NO_STREAM_BODY", "AbortError", "FetchFailure", "TransportFailure"}
  /\ pos \in 0..Len(body)

\* ---------------------------------------------------------- the chat page
readerVars == <<input, pos, aborted, pc, error, rd, closed>>

\* the single-invocation variables, not used by the page model
ReaderIdle ==
  /\ sent = <<>> /\ tail = <<>> /\ body = <<>> /\ res = "body"
  /\ pos = 0 /\ aborted = FALSE /\ pc = "fetching" /\ error = "none"
  /\ rd = NewReader /\ closed = FALSE

\* the response bodies Ollama may stream to the page
UIBodies ==
  { EncodeLines(<<Rec(TRUE, Bon, "false"), Rec(TRUE, Jour, "true")>>),
    EncodeLines(<<Rec(TRUE, <<SP, SP>>, "false")>>) }

UIChunkSizes == {UIChunk, 2 * UIChunk}

Min(a, b) == IF a <= b THEN a ELSE b

\* variant: buffer and pending kept in module scope, so that a new
\* invocation starts with what the previous one left
StartReaderInheriting(cs, i) ==
  IF i > 1
  THEN [NewReader EXCEPT !.buffer = cs[i - 1].rd.buffer, !.pending = cs[i - 1].rd.pending]
  ELSE NewReader

\* let buffer = "", let pending = "" : the reader state of a new invocation
StartReader(cs, i) == NewReader

\* setMessages(prev => prev.map(m => m.id === assistantId ? {...m, content: c} : m))
SetContent(msgs, i, c) ==
  [k \in DOMAIN msgs |->
     IF msgs[k].kind = "stream" /\ msgs[k].of = i THEN [msgs[k] EXCEPT !.content = c] ELSE msgs[k]]

\* onToken: acc += t; setMessages(...), for each new onToken call
OnTokens(msgs, i, acc, newTokens) ==
  IF newTokens = <<>> THEN msgs ELSE SetContent(msgs, i, acc \o Flatten(newTokens))

\* variant: a catch without the err?.name === "AbortError" branch
AfterAwaitNoCancel(msgs, i, result, acc) ==
  IF result = "returned"
  THEN IF Trim(acc) = <<>> THEN SetContent(msgs, i, DefaultMessage) ELSE msgs
  ELSE Append(msgs, [of |-> i, kind |-> "error",
                     content |-> [model |-> OLLAMA_MODEL, detail |-> result]])

\* handleSend after await withTimeout(...): the success path, or the catch
AfterAwait(msgs, i, result, acc) ==
  IF result = "returned"
  THEN IF Trim(acc) = <<>> THEN SetContent(msgs, i, DefaultMessage) ELSE msgs
  ELSE IF result = "AbortError"
  THEN Append(msgs, [of |-> i, kind |-> "stopped", content |-> <<>>])
  ELSE Append(msgs, [of |-> i, kind |-> "error",
                     content |-> [model |-> OLLAMA_MODEL, detail |-> result]])

\* the streaming read of call i has settled with result, c2 and msgs being
\* calls and messages after its last step: if handleSend still awaits it,
\* handleSend resumes (success path or catch, then finally)
Resume(i, result, c2, msgs) ==
  IF calls[i].hs = "awaiting"
  THEN /\ calls' = [c2 EXCEPT ![i].hs = "ended", ![i].result = result]
       /\ messages' = AfterAwait(msgs, i, result, c2[i].acc)
       /\ isTyping' = FALSE
       /\ abortRef' = 0
  ELSE /\ calls' = c2
       /\ messages' = msgs
       /\ UNCHANGED <<isTyping, abortRef>>

\* the read of call i is suspended at an await and its signal is not aborted
InFlight(i) == calls[i].pc \in {"fetching", "reading"} /\ ~calls[i].aborted

\* controller.abort() on the read of call k: its pending fetch or read
\* rejects with AbortError
Aborted(cs, k) ==
  IF k # 0 /\ cs[k].pc \in {"fetching", "reading"}
  THEN [cs EXCEPT ![k].aborted = TRUE, ![k].pc = "thrown", ![k].error = "AbortError"]
  ELSE cs

\* onClick={() => setMode(...)}
SetMode(m) ==
  /\ m # mode
  /\ mode' = m
  /\ UNCHANGED <<isTyping, abortRef, messages, nsends, calls, readerVars, ticket, others>>

\* handleSend with a non-empty text, up to its first await (Ollama) or to
\* its end (FAQ)
Send ==
  /\ ~isTyping
  /\ nsends < MaxSends
  /\ LET i == nsends + 1
         cs == Aborted(calls, abortRef)
         user == [of |-> i, kind |-> "user", content |-> <<>>]
     IN /\ nsends' = i
        /\ IF mode = "faq"
           THEN /\ messages' = messages \o <<user, [of |-> i, kind |-> "faq", content |-> DefaultMessage]>>
                /\ calls' = [cs EXCEPT ![i].hs = "ended", ![i].mode = "faq", ![i].result = "faq"]
                /\ isTyping' = FALSE
                /\ abortRef' = 0
           ELSE /\ messages' = messages \o <<user, [of |-> i, kind |-> "stream", content |-> <<>>]>>
                /\ \E r \in Responses : \E b \in (IF r = "body" THEN UIBodies ELSE {<<>>}) :
                     calls' = [cs EXCEPT ![i] = [NoCall EXCEPT !.hs = "awaiting", !.mode = "ollama",
                                                  !.pc = "fetching", !.res = r, !.body = b,
                                                  !.rd = StartReader(cs, i)]]
                /\ isTyping' = TRUE
                /\ abortRef' = i
  /\ UNCHANGED <<mode, readerVars, ticket, others>>

\* stopAI, then the rejection it causes in the handleSend call that awaits
\* the aborted read
Stop ==
  /\ mode = "ollama"
  /\ isTyping
  /\ LET k == abortRef
         cs == Aborted(calls, k)
     IN IF k # 0 /\ calls[k].hs = "awaiting" /\ cs[k].pc = "thrown"
        THEN /\ calls' = [cs EXCEPT ![k].hs = "ended", ![k].result = "AbortError"]
             /\ messages' = AfterAwait(messages, k, "AbortError", cs[k].acc)
        ELSE /\ calls' = cs
             /\ messages' = messages
  /\ isTyping' = FALSE
  /\ abortRef' = 0
  /\ UNCHANGED <<mode, nsends, readerVars, ticket, others>>

\* variant: the read awaited without withTimeout, no timer ends the wait
TimeoutNone(i) ==
  /\ calls[i].hs = "awaiting"
  /\ calls[i].mode = "ollama"
  /\ UNCHANGED vars

\* the timer of withTimeout(..., 120000) fires first: handleSend goes to
\* its catch with TIMEOUT_120000ms; the read is left as it is
Timeout(i) ==
  /\ calls[i].hs = "awaiting"
  /\ calls[i].mode = "ollama"
  /\ Resume(i, "TIMEOUT", calls, messages)
  /\ UNCHANGED <<mode, nsends, readerVars, ticket, others>>

\* await fetch(...) of call i settles: rejection, status check, body check
StreamFetch(i) ==
  /\ InFlight(i)
  /\ calls[i].pc = "fetching"
  /\ LET r == calls[i].res
         e == IF r = "network_error" THEN "FetchFailure"
              ELSE IF r = "http_error" THEN "HTTP"
              ELSE IF r = "no_body" THEN "NO_STREAM_BODY" ELSE "none"
     IN IF e = "none"
        THEN /\ calls' = [calls EXCEPT ![i].pc = "reading"]
             /\ UNCHANGED <<isTyping, abortRef, messages>>
        ELSE Resume(i, e, [calls EXCEPT ![i].pc = "thrown", ![i].error = e], messages)
  /\ UNCHANGED <<mode, nsends, readerVars, ticket, others>>

\* variant: a reader that suspends after each onToken call, so that one
\* step delivers only the first token of the chunk
StreamChunkYielding(i, n) ==
  /\ InFlight(i)
  /\ calls[i].pc = "reading"
  /\ calls[i].pos < Len(calls[i].body)
  /\ LET c == calls[i]
         to == Min(c.pos + n, Len(c.body))
         rd2 == ReadStep(c.rd, SubSeq(c.body, c.pos + 1, to))
         all == SubSeq(rd2.tokens, Len(c.rd.tokens) + 1, Len(rd2.tokens))
         new == IF all = <<>> THEN <<>> ELSE <<all[1]>>
     IN /\ calls' = [calls EXCEPT ![i].rd = [rd2 EXCEPT !.tokens = c.rd.tokens \o new],
                                  ![i].pos = to, ![i].acc = c.acc \o Flatten(new)]
        /\ messages' = OnTokens(messages, i, c.acc, new)
  /\ UNCHANGED <<mode, isTyping, abortRef, nsends, readerVars, ticket, others>>

\* await reader.read() of call i gives up to n bytes: one pass of the
\* while loop, each onToken call updating the message of call i
StreamChunk(i, n) ==
  /\ InFlight(i)
  /\ calls[i].pc = "reading"
  /\ calls[i].pos < Len(calls[i].body)
  /\ LET c == calls[i]
         to == Min(c.pos + n, Len(c.body))
         rd2 == ReadStep(c.rd, SubSeq(c.body, c.pos + 1, to))
         new == SubSeq(rd2.tokens, Len(c.rd.tokens) + 1, Len(rd2.tokens))
     IN /\ calls' = [calls EXCEPT ![i].rd = rd2, ![i].pos = to, ![i].acc = c.acc \o Flatten(new)]
        /\ messages' = OnTokens(messages, i, c.acc, new)
  /\ UNCHANGED <<mode, isTyping, abortRef, nsends, readerVars, ticket, others>>

\* await reader.read() of call i reports done: final flush and return
StreamDone(i) ==
  /\ InFlight(i)
  /\ calls[i].pc = "reading"
  /\ calls[i].pos = Len(calls[i].body)
  /\ LET c == calls[i]
         toks == FinalFlush(c.rd.pending, c.rd.tokens)
         new == SubSeq(toks, Len(c.rd.tokens) + 1, Len(toks))
     IN Resume(i, "returned",
               [calls EXCEPT ![i].rd.tokens = toks, ![i].pc = "returned",
                             ![i].acc = c.acc \o Flatten(new)],
               OnTokens(messages, i, c.acc, new))
  /\ UNCHANGED <<mode, nsends, readerVars, ticket, others>>

\* await reader.read() of call i rejects for a reason other than the signal
StreamFail(i) ==
  /\ InFlight(i)
  /\ calls[i].pc = "reading"
  /\ Resume(i, "TransportFailure",
            [calls EXCEPT ![i].pc = "thrown", ![i].error = "TransportFailure"], messages)
  /\ UNCHANGED <<mode, nsends, readerVars, ticket, others>>

InitUI == PageInit /\ ReaderIdle /\ ticket = NoTicket /\ RestIdle

NextUI ==
  \/ \E m \in {"faq", "ollama"} : SetMode(m)
  \/ Send
  \/ Stop
  \/ \E i \in 1..MaxSends : Timeout(i)
  \/ \E i \in 1..MaxSends : StreamFetch(i)
  \/ \E i \in 1..MaxSends : \E n \in UIChunkSizes : StreamChunk(i, n)
  \/ \E i \in 1..MaxSends : StreamDone(i)
  \/ \E i \in 1..MaxSends : StreamFail(i)

SpecUI == InitUI /\ [][NextUI]_vars

\* setTimeout: a timer that stays armed fires
TimerFairness == \A i \in 1..MaxSends : WF_vars(Timeout(i))

SpecUIFair == SpecUI /\ TimerFairness

\* ------------------------------------------------------ the ticket route
\* function safeStr(v, max): String(v ?? "").trim(), cut to max characters
safeStr(v, max) ==
  LET s == Trim(v)
  IN IF Len(s) > max THEN SubSeq(s, 1, max) ELSE s

\* what stripe.paymentIntents.retrieve may do: reject, resolve to nothing,
\* or resolve to a payment intent in one of the statuses of the Stripe API
IntentStatuses ==
  {"requires_payment_method", "requires_confirmation", "requires_action",
   "processing", "requires_capture", "canceled", "succeeded"}

RetrieveOutcomes == {"throws", "null"} \cup IntentStatuses

\* the values of req.params.paymentIntentId
TicketParams == { <<SP>>, <<"p">>, <<SP, "p">> }

\* res.status(code).send(text)
SendText(t, code) ==
  [t EXCEPT !.pc = "done", !.status = code, !.sent = "text",
            !.contentType = IF t.contentType = "none" THEN "text/html" ELSE t.contentType]

\* the request arrives: STRIPE_SECRET_KEY check, paymentIntentId check,
\* then await stripe.paymentIntents.retrieve
TicketRequest ==
  /\ ticket.pc = "start"
  /\ ticket' = IF ~ticket.key THEN SendText(ticket, 500)
               ELSE IF safeStr(ticket.param, 100) = <<>> THEN SendText(ticket, 400)
               ELSE [ticket EXCEPT !.pc = "retrieving"]
  /\ UNCHANGED <<ui, readerVars, others>>

\* variant: a route without the pi.status !== "succeeded" check
TicketRetrievedUnchecked ==
  /\ ticket.pc = "retrieving"
  /\ ticket' = IF ticket.stripe = "throws" THEN SendText(ticket, 500)
               ELSE IF ticket.stripe = "null" THEN SendText(ticket, 404)
               ELSE [ticket EXCEPT !.pc = "qr"]
  /\ UNCHANGED <<ui, readerVars, others>>

\* the retrieval settles: catch, 404, status check, then await QRCode.toBuffer
TicketRetrieved ==
  /\ ticket.pc = "retrieving"
  /\ ticket' = IF ticket.stripe = "throws" THEN SendText(ticket, 500)
               ELSE IF ticket.stripe = "null" THEN SendText(ticket, 404)
               ELSE IF ticket.stripe # "succeeded" THEN SendText(ticket, 403)
               ELSE [ticket EXCEPT !.pc = "qr"]
  /\ UNCHANGED <<ui, readerVars, others>>

\* QRCode.toBuffer settles: catch, or headers, doc.pipe(res), the drawing
\* calls (which may throw into the catch) and doc.end()
TicketRender ==
  /\ ticket.pc = "qr"
  /\ ticket' = IF ticket.qr = "throws" THEN SendText(ticket, 500)
               ELSE IF ticket.pdf = "throws"
               THEN SendText([ticket EXCEPT !.contentType = "application/pdf"], 500)
               ELSE [ticket EXCEPT !.pc = "done", !.contentType = "application/pdf",
                                   !.sent = "pdf"]
  /\ UNCHANGED <<ui, readerVars, others>>

InitTicket ==
  /\ PageInit
  /\ ReaderIdle
  /\ RestIdle
  /\ ticket \in { [NoTicket EXCEPT !.pc = "start", !.key = k, !.param = p, !.stripe = o,
                                   !.qr = q, !.pdf = d] :
                  k \in BOOLEAN, p \in TicketParams, o \in RetrieveOutcomes,
                  q \in {"ok", "throws"}, d \in {"ok", "throws"} }

NextTicket ==
  \/ TicketRequest
  \/ TicketRetrieved
  \/ TicketRender

SpecTicket == InitTicket /\ [][NextTicket]_vars

\* ------------------------------------- the two stream readers side by side
\* ollamaChatStream, the body of its for loop with a test on token.trim()
\* instead of token (variant)
ChatLineSkippingSpace(st, line) ==
  LET t == Trim(line) IN
  IF t = <<>> THEN st
  ELSE LET obj == JSONparse(t) IN
       IF ~obj.ok THEN st
       ELSE [tokens |-> IF obj.hasContent /\ Trim(obj.content) # <<>>
                         THEN Append(st.tokens, obj.content) ELSE st.tokens,
             returned |-> obj.done = "true"]

\* ollamaChatStream, the body of its for loop: trim, JSON.parse,
\* if (token) onToken(String(token)), if (obj?.done) return
ChatLine(st, line) ==
  LET t == Trim(line) IN
  IF t = <<>> THEN st
  ELSE LET obj == JSONparse(t) IN
       IF ~obj.ok THEN st
       ELSE [tokens |-> IF obj.hasContent /\ obj.content # <<>>
                         THEN Append(st.tokens, obj.content) ELSE st.tokens,
             returned |-> obj.done = "true"]

\* for (const line of lines), left by the return
RECURSIVE ChatLines(_, _)
ChatLines(st, lines) ==
  IF lines = <<>> \/ st.returned THEN st
  ELSE ChatLines(ChatLine(st, Head(lines)), Tail(lines))

\* ollamaChatStream, one pass of its while loop for a chunk
ChatReadStep(c, value) ==
  LET dec == Utf8Decode(c.partial, value, <<>>)
      fr == LineFraming(c.buffer \o dec.text)
      st == ChatLines([tokens |-> c.tokens, returned |-> FALSE], fr.lines)
  IN [partial |-> dec.partial, buffer |-> fr.buffer, tokens |-> st.tokens,
      pc |-> IF st.returned THEN "returned" ELSE "reading"]

\* the lines of the streams both readers are given
PairItems ==
  { Rec(TRUE, Bon, "false"),
    Rec(TRUE, Jour, "true"),
    Rec(TRUE, <<SP, SP>>, "false"),
    Rec(TRUE, <<"c", LF, EACUTE>>, "absent"),
    Rec(FALSE, <<>>, "true"),
    Raw(<<"{", QUOTE, "a">>) }

PairSeqs == UNION { [1..n -> PairItems] : n \in 0..MaxLines }

\* both readers have their response and read the same body
InitPair ==
  /\ PageInit
  /\ ticket = NoTicket
  /\ pay = NoPay
  /\ auth = NoAuth
  /\ res = "body"
  /\ sent \in PairSeqs
  /\ tail \in (IF Len(sent) < MaxLines THEN Tails ELSE {<<>>})
  /\ body = EncodeLines(sent) \o Utf8Encode(tail)
  /\ pos = 0
  /\ aborted = FALSE
  /\ pc = "reading"
  /\ error = "none"
  /\ rd = NewReader
  /\ closed = FALSE
  /\ chat = NewStream

\* the next n bytes reach both readers; ollamaChatStream reads them unless
\* it has returned
PairChunk(n) ==
  /\ pc = "reading"
  /\ pos + n <= Len(body)
  /\ rd' = ReadStep(rd, SubSeq(body, pos + 1, pos + n))
  /\ chat' = IF chat.pc = "reading" THEN ChatReadStep(chat, SubSeq(body, pos + 1, pos + n))
             ELSE chat
  /\ pos' = pos + n
  /\ UNCHANGED <<ui, ticket, pay, auth, input, aborted, pc, error, closed>>

\* reader.read() reports done to both readers
PairDone ==
  /\ pc = "reading"
  /\ pos = Len(body)
  /\ rd' = [rd EXCEPT !.tokens = FinalFlush(rd.pending, rd.tokens)]
  /\ pc' = "returned"
  /\ chat' = [chat EXCEPT !.pc = "returned"]
  /\ UNCHANGED <<ui, ticket, pay, auth, input, aborted, pos, error, closed>>

\* reader.read() rejects in both readers
PairFail ==
  /\ pc = "reading"
  /\ Throw("TransportFailure")
  /\ chat' = IF chat.pc = "reading" THEN [chat EXCEPT !.pc = "thrown"] ELSE chat
  /\ UNCHANGED <<ui, ticket, pay, auth, input, aborted, pos, rd, closed>>

NextPair ==
  \/ \E n \in 1..MaxChunk : PairChunk(n)
  \/ PairDone
  \/ PairFail

SpecPair == InitPair /\ [][NextPair]_vars

\* ------------------------------------------------------ the payment form
\* the name and email fields
FieldTexts == { <<>>, <<SP>>, <<"a">> }

\* what POST /api/payments/create-intent may give: a rejected fetch, the
\* 15 s timer aborting it, an error status, a body that is not JSON, or a
\* JSON body
ServerOutcomes == {"network_error", "timeout", "http_error", "bad_json", "ok"}

\* what stripe.confirmCardPayment may give: a rejection, a result with an
\* error, a result without a payment intent, or a payment intent in one
\* of the statuses of the Stripe API
ConfirmOutcomes == {"rejects", "error", "no_intent"} \cup IntentStatuses

\* createPaymentIntent: the data it returns, or the error it throws
createPaymentIntent(p) ==
  IF p.server = "network_error" THEN [ok |-> FALSE, error |-> "FetchFailure"]
  ELSE IF p.server = "timeout" THEN [ok |-> FALSE, error |-> "timeout"]
  ELSE IF p.server = "http_error" THEN [ok |-> FALSE, error |-> "server"]
  ELSE IF p.server = "bad_json" THEN [ok |-> FALSE, error |-> "SyntaxError"]
  ELSE IF ~p.secret \/ ~p.id THEN [ok |-> FALSE, error |-> "invalid"]
  ELSE [ok |-> TRUE, error |-> "none"]

\* catch (e) { toast.error(...) } finally { setBusy(false) }
PayCatch(p, e) == [p EXCEPT !.pc = "done", !.toast = e, !.busy = FALSE]

\* handlePay up to its first await: the guards, then setBusy(true) and the
\* call of createPaymentIntent
handlePay ==
  /\ pay.pc = "start"
  /\ ~pay.busy
  /\ pay' = IF ~pay.stripe THEN [pay EXCEPT !.pc = "done"]
            ELSE IF Trim(pay.name) = <<>> \/ Trim(pay.email) = <<>>
            THEN [pay EXCEPT !.pc = "done", !.toast = "fields"]
            ELSE IF ~pay.card THEN [pay EXCEPT !.pc = "done", !.toast = "card"]
            ELSE [pay EXCEPT !.pc = "creating", !.busy = TRUE]
  /\ UNCHANGED <<ui, ticket, readerVars, chat, auth>>

\* await createPaymentIntent(...) settles: catch, or the call of
\* stripe.confirmCardPayment
PayIntentCreated ==
  /\ pay.pc = "creating"
  /\ LET data == createPaymentIntent(pay)
     IN pay' = IF data.ok THEN [pay EXCEPT !.pc = "confirming"]
               ELSE PayCatch(pay, data.error)
  /\ UNCHANGED <<ui, ticket, readerVars, chat, auth>>

\* variant: no test of result.paymentIntent?.status
PayConfirmedUnchecked ==
  /\ pay.pc = "confirming"
  /\ pay' = IF pay.confirm = "rejects" THEN PayCatch(pay, "rejected")
            ELSE IF pay.confirm = "error" THEN PayCatch(pay, "refused")
            ELSE [pay EXCEPT !.pc = "done", !.toast = "success", !.busy = FALSE,
                             !.onSuccess = Append(pay.onSuccess, "paymentIntentId")]
  /\ UNCHANGED <<ui, ticket, readerVars, chat, auth>>

\* await stripe.confirmCardPayment(...) settles: result.error, the status
\* test, then toast.success and props.onSuccess(paymentIntentId), finally
PayConfirmed ==
  /\ pay.pc = "confirming"
  /\ pay' = IF pay.confirm = "rejects" THEN PayCatch(pay, "rejected")
            ELSE IF pay.confirm = "error" THEN PayCatch(pay, "refused")
            ELSE IF pay.confirm # "succeeded" THEN PayCatch(pay, "status")
            ELSE [pay EXCEPT !.pc = "done", !.toast = "success", !.busy = FALSE,
                             !.onSuccess = Append(pay.onSuccess, "paymentIntentId")]
  /\ UNCHANGED <<ui, ticket, readerVars, chat, auth>>

InitPay ==
  /\ PageInit
  /\ ReaderIdle
  /\ ticket = NoTicket
  /\ chat = NewStream
  /\ auth = NoAuth
  /\ pay \in { [NoPay EXCEPT !.pc = "start", !.stripe = st, !.name = n, !.email = e,
                             !.card = c, !.server = sv, !.secret = x[1], !.id = x[2],
                             !.confirm = cf] :
               st \in BOOLEAN, n \in FieldTexts, e \in FieldTexts, c \in BOOLEAN,
               sv \in ServerOutcomes, x \in BOOLEAN \X BOOLEAN, cf \in ConfirmOutcomes }

NextPay ==
  \/ handlePay
  \/ PayIntentCreated
  \/ PayConfirmed

SpecPay == InitPay /\ [][NextPay]_vars

\* ------------------------------------- the data bound to the session (App)
\* who calls refreshAuthBoundData: loadAll, the onAuthStateChange callback,
\* the onAuthChanged prop of AccountPage
AuthCallers == {"loadAll", "onAuthStateChange", "onAuthChanged"}

\* the run k of the async function in refreshAuthBoundData settles with the
\* profile p (null after the catch); then run.finally clears the ref
RunSettled(a, k, p) ==
  [a EXCEPT !.runs[k].run = "settled", !.profile = p, !.inFlightAuthRef = 0]

\* refreshAuthBoundData(): the in-flight promise if there is one, else a
\* new run, which calls getProfile() and awaits it under withTimeout
refreshAuthBoundData(caller) ==
  /\ IF auth.inFlightAuthRef # 0
     THEN /\ auth.runs[auth.inFlightAuthRef].joined < MaxJoin
          /\ auth' = [auth EXCEPT !.last = caller,
                                  !.runs[auth.inFlightAuthRef].joined = @ + 1]
     ELSE /\ auth.nruns < MaxRuns
          /\ auth' = [auth EXCEPT !.last = caller, !.nruns = @ + 1,
                                  !.inFlightAuthRef = auth.nruns + 1,
                                  !.runs[auth.nruns + 1] =
                                     [run |-> "awaiting", getProfile |-> "pending", joined |-> 0]]
  /\ UNCHANGED <<ui, ticket, readerVars, chat, pay>>

\* the getProfile() call of run k settles; the run, if it still awaits it,
\* goes on: setProfile(p), or the catch
GetProfileSettles(k, outcome) ==
  /\ auth.runs[k].getProfile = "pending"
  /\ LET a == [auth EXCEPT !.runs[k].getProfile = outcome]
     IN auth' = IF auth.runs[k].run = "awaiting"
                THEN RunSettled(a, k, IF outcome = "resolved" THEN "p" ELSE "null")
                ELSE a
  /\ UNCHANGED <<ui, ticket, readerVars, chat, pay>>

\* the timer of withTimeout(getProfile(), 12000) fires first: the run goes
\* to its catch; the getProfile() call is left as it is
AuthTimeout(k) ==
  /\ auth.runs[k].run = "awaiting"
  /\ auth' = RunSettled(auth, k, "null")
  /\ UNCHANGED <<ui, ticket, readerVars, chat, pay>>

InitAuth ==
  /\ PageInit
  /\ ReaderIdle
  /\ ticket = NoTicket
  /\ chat = NewStream
  /\ pay = NoPay
  /\ auth = NoAuth

NextAuth ==
  \/ \E c \in AuthCallers : refreshAuthBoundData(c)
  \/ \E k \in 1..MaxRuns : \E o \in {"resolved", "rejected"} : GetProfileSettles(k, o)
  \/ \E k \in 1..MaxRuns : AuthTimeout(k)

SpecAuth == InitAuth /\ [][NextAuth]_vars

\* ------------------------------------------------------ reference values
\* the text fragment a stream item carries
Fragment(it) == IF it.kind = "rec" /\ it.hasContent THEN it.content ELSE <<>>

RECURSIVE Fragments(_)
Fragments(items) ==
  IF items = <<>> THEN <<>> ELSE Fragment(Head(items)) \o Fragments(Tail(items))

RECURSIVE CountLF(_)
CountLF(bytes) ==
  IF bytes = <<>> THEN 0 ELSE (IF Head(bytes) = LF THEN 1 ELSE 0) + CountLF(Tail(bytes))

\* the bytes delivered so far, and the stream items whose newline is
\* among them
Received == SubSeq(body, 1, pos)
CompleteItems == SubSeq(sent, 1, CountLF(Received))

RECURSIVE AfterLastLF(_)
AfterLastLF(bytes) ==
  IF bytes = <<>> \/ Last(bytes) = LF THEN <<>>
  ELSE Append(AfterLastLF(Front(bytes)), Last(bytes))

IsRecord(it) == it.kind = "rec"

\* newline-terminated valid records, the completion flag on none but
\* possibly the last
ValidRecordStream ==
  /\ res = "body"
  /\ tail = <<>>
  /\ \A i \in DOMAIN sent : IsRecord(sent[i]) /\ (sent[i].done = "true" => i = Len(sent))

\* ----------------------------------------------------------------- claims

\* C1: for a stream of newline-terminated valid records with fragments
\* f1..fn and the completion flag on no record but possibly the last, the
\* concatenation of the onToken arguments is f1 + ... + fn when the
\* operation returns, whatever the chunking; whitespace runs are verbatim.
C1_OrderPreservation ==
  (pc = "returned" /\ ValidRecordStream) => Flatten(tokens) = Fragments(sent)

\* the fragments "a", "  ", "b" (the last one done) have given "a  b"
C1_Witness ==
  /\ pc = "returned"
  /\ sent = <<Rec(TRUE, <<"a">>, "false"), Rec(TRUE, <<SP, SP>>, "false"), Rec(TRUE, <<"b">>, "true")>>
  /\ tail = <<>>
  /\ tokens = << <<"a">>, <<SP, SP>>, <<"b">> >>

\* C2 (as claimed): the first record with a true completion flag ends the
\* operation: no record that follows it, in the same chunk or a later one,
\* causes an onToken call.
C2_CompletionTerminates ==
  doneSeen => Len(tokens) = rd.doneAt

\* C3: however the body is cut into chunks, the reader is in the state
\* that reading the same bytes as one chunk gives, so the concatenated
\* onToken output at return does not depend on the cuts.
C3_ChunkIndependence ==
  LET one == ReadStep(NewReader, Received) IN
  /\ pc = "reading" => rd = one
  /\ pc = "returned" => Flatten(tokens) = Flatten(FinalFlush(one.pending, one.tokens))

\* a body with a two-byte character was read in more than two chunks
C3_Witness ==
  /\ pc = "returned"
  /\ pos > 2 * MaxChunk
  /\ \E i \in DOMAIN tokens : tokens[i] = <<EACUTE>>

\* C4: once the signal is aborted while the reader awaits a chunk, there
\* is no further onToken call, pending is not emitted, and the only way
\* on is the AbortError outcome.
C4_CancellationDiscard ==
  [][(pc = "reading" /\ aborted /\ ~closed) =>
       /\ rd' = rd
       /\ pc' # pc => (pc' = "thrown" /\ error' = "AbortError")]_vars

\* cancelled with an unterminated word in pending and nothing emitted
C4_Witness ==
  /\ pc = "thrown"
  /\ error = "AbortError"
  /\ pending = <<"a">>
  /\ tokens = <<>>
  /\ pos > 0

\* C5: lines that are not valid JSON change nothing: the onToken calls
\* and pending are those of the same stream without these lines, and the
\* reader goes on reading.
C5_MalformedTolerance ==
  pc \in {"reading", "returned"} =>
    LET valid == SelectSeq(CompleteItems, IsRecord)
        ref == ReadStep(NewReader, EncodeLines(valid))
    IN /\ pending = ref.pending
       /\ tokens = IF pc = "returned" THEN FinalFlush(ref.pending, ref.tokens) ELSE ref.tokens
       /\ error = "none"

\* a malformed line between two valid records, all three processed
C5_Witness ==
  /\ pc = "reading"
  /\ Len(sent) = 3 /\ pos = Len(body) /\ tail = <<>>
  /\ sent[1] = Rec(TRUE, <<"a">>, "false")
  /\ sent[2] = Raw(<<"{", QUOTE, "a">>)
  /\ sent[3] = Rec(TRUE, <<SP, SP>>, "false")
  /\ tokens = << <<"a">>, <<SP, SP>> >>

\* C6: when the transport ends and no completion flag was processed, the
\* remaining pending text is the one final token, and the output is all
\* the text the records carried.
C6_NaturalEnd ==
  (pc = "returned" /\ ~doneSeen) =>
    /\ Flatten(tokens) = Fragments(sent)
    /\ pending # <<>> => (tokens # <<>> /\ Last(tokens) = pending)

\* the stream ended on a word that no whitespace follows
C6_Witness ==
  /\ pc = "returned"
  /\ ~doneSeen
  /\ pending = <<"a">>
  /\ tokens = << <<SP, SP>>, <<"a">> >>

\* C7: the single record "hello" with the completion flag gives exactly
\* one onToken call, with "hello", and pending is empty at return; text
\* flushed by a completion flag is cleared from pending and is not emitted
\* again by the final flush.
C7_CompletionFlush ==
  /\ (pc = "returned" /\ sent = <<Rec(TRUE, Hello, "true")>> /\ tail = <<>>)
        => (tokens = <<Hello>> /\ pending = <<>>)
  /\ (pc \in {"reading", "returned"} /\ CompleteItems # <<>>
        /\ IsRecord(Last(CompleteItems)) /\ Last(CompleteItems).done = "true")
        => pending = <<>>
  /\ (pc = "returned" /\ doneSeen) => Flatten(tokens) = Fragments(sent)

\* "hello" with the completion flag was read and the operation returned
C7_Witness ==
  /\ pc = "returned"
  /\ sent = <<Rec(TRUE, Hello, "true")>>
  /\ tail = <<>>
  /\ tokens = <<Hello>>

\* C8: a response with a success status and no body makes the operation
\* throw NO_STREAM_BODY before any read, with no onToken call.
C8_NoBody ==
  (res = "no_body" /\ ~aborted /\ pc # "fetching") =>
    (pc = "thrown" /\ error = "NO_STREAM_BODY" /\ pos = 0 /\ tokens = <<>>)

\* the response without a body has been received
C8_Witness == res = "no_body" /\ ~aborted /\ pc = "thrown" /\ error = "NO_STREAM_BODY"

\* C9: a read that fails for a reason other than cancellation ends the
\* operation with that failure: no onToken call, no flush of pending, no
\* further read; the tokens emitted before stay.
C9_TransportFailure ==
  [][/\ (pc = "reading" /\ error' = "TransportFailure") => (pc' = "thrown" /\ rd' = rd /\ pos' = pos)
     /\ pc = "thrown" => FALSE]_vars

\* a read failed after a token was emitted and with text in pending
C9_Witness ==
  /\ pc = "thrown"
  /\ error = "TransportFailure"
  /\ tokens = << <<"a">>, <<SP, SP>> >>
  /\ pending = <<"a">>

\* C10: after every chunk buffer has no newline, it is the text received
\* after the last newline, and that text has not been parsed: the tokens
\* and pending hold the text of the newline-terminated lines only.
C10_LineBuffer ==
  pc \in {"reading", "returned", "thrown"} =>
    LET rest == Utf8Decode(<<>>, AfterLastLF(Received), <<>>) IN
    /\ \A i \in DOMAIN buffer : buffer[i] # LF
    /\ buffer = rest.text
    /\ rd.partial = rest.partial
    /\ pc = "reading" => Flatten(tokens) \o pending = Fragments(CompleteItems)

\* a complete record without its newline is held in buffer, unparsed
C10_Witness ==
  /\ pc = "reading"
  /\ buffer = <<"{", QUOTE, "b", QUOTE, "T", "}">>
  /\ pos = Len(body)
  /\ sent = <<Rec(TRUE, <<"a">>, "false")>>
  /\ tokens = <<>>
  /\ pending = <<"a">>

\* every character of a text is whitespace
AllSpace(t) == \A k \in DOMAIN t : IsSpace(t[k])
NoSpace(t) == \A k \in DOMAIN t : ~IsSpace(t[k])

\* C11: while no completion flag has been processed the reader has emitted
\* all the text received except its last piece, which it withholds: pending
\* is the trailing non-whitespace run of the text, a non-whitespace token is
\* always followed by a whitespace token, so a word is emitted whole and
\* only once whitespace after it has arrived.
C11_TokenizationPolicy ==
  (pc = "reading" /\ ~doneSeen) =>
    LET parts == SplitRuns(Fragments(CompleteItems), <<>>, <<>>) IN
    /\ pending = Last(parts)
    /\ Flatten(tokens) = Flatten(Front(parts))
    /\ \A i \in DOMAIN tokens :
         /\ tokens[i] # <<>>
         /\ AllSpace(tokens[i]) \/ NoSpace(tokens[i])
         /\ NoSpace(tokens[i]) => (i < Len(tokens) /\ AllSpace(tokens[i + 1]))

\* "Bon" then "jour " have given the one token "Bonjour", then " "
C11_Witness ==
  /\ pc = "reading"
  /\ sent = <<Rec(TRUE, Bon, "false"), Rec(TRUE, Jour, "false"), Rec(TRUE, Bon, "false")>>
  /\ pos = Len(body)
  /\ tokens = << <<"B", "o", "n", "j", "o", "u", "r">>, <<SP>> >>
  /\ pending = Bon

\* a line that is empty after trimming, or a record without text and
\* without a true completion flag
NonContributing(it) ==
  IF it.kind = "raw" THEN \A k \in DOMAIN it.text : it.text[k] \in {SP, CR, "\t"}
  ELSE (~it.hasContent \/ it.content = <<>>) /\ it.done # "true"

Contributing(it) == ~NonContributing(it)

\* C12: non-contributing lines change nothing: the onToken calls and
\* pending are those of the same stream without these lines, and the lines
\* after them are processed.
C12_NonContributing ==
  pc = "reading" =>
    LET ref == ReadStep(NewReader, EncodeLines(SelectSeq(CompleteItems, Contributing))) IN
    /\ pending = ref.pending
    /\ tokens = ref.tokens

\* a record with an empty fragment between a word and the whitespace
\* that ends it, after a blank line
C12_Witness ==
  /\ pc = "reading"
  /\ pos = Len(body)
  /\ \E i \in 1..(Len(sent) - 2) :
       /\ sent[i] = Rec(TRUE, <<"a">>, "false")
       /\ sent[i + 1] \in {Rec(TRUE, <<>>, "false"), Rec(FALSE, <<>>, "absent"), Raw(<<CR>>)}
       /\ sent[i + 2] = Rec(TRUE, <<SP, SP>>, "false")
  /\ tokens = << <<"a">>, <<SP, SP>> >>
  /\ pending = <<>>

\* C19: at the end of the stream what is left in buffer is dropped
\* unparsed: a complete last record without its newline causes no onToken
\* call, the output is that of the newline-terminated lines alone.
C19_TailDiscarded ==
  (pc = "returned" /\ tail # <<>>) =>
    LET ref == ReadStep(NewReader, EncodeLines(sent)) IN
    /\ buffer = tail
    /\ tokens = FinalFlush(ref.pending, ref.tokens)
    /\ Flatten(tokens) = Fragments(sent)

\* the body ended with the unterminated record "b" with its completion
\* flag, and "b" was not emitted
C19_Witness ==
  /\ pc = "returned"
  /\ tail = <<"{", QUOTE, "b", QUOTE, "T", "}">>
  /\ sent = <<Rec(TRUE, <<"a">>, "false"), Rec(TRUE, <<SP, SP>>, "false")>>
  /\ tokens = << <<"a">>, <<SP, SP>> >>
  /\ ~doneSeen

\* C18 (as claimed): when the signal is activated during the processing of
\* a chunk, every token of the chunks delivered is emitted, pending is not
\* flushed, and the invocation can only end with AbortError.
C18_CooperativeCancellation ==
  aborted =>
    /\ rd = ReadStep(NewReader, Received)
    /\ pc \in {"fetching", "reading"} \/ (pc = "thrown" /\ error = "AbortError")

\* C23: pending never holds a whitespace character, no onToken call has
\* the empty string, and every token is a run of whitespace only or of
\* non-whitespace only, the tokens of the completion flush and of the flush
\* at the end of the stream included.  (A chunk holds at most one record,
\* so the states between chunks are the states after each record.)
C23_TokenShape ==
  /\ NoSpace(pending)
  /\ \A i \in DOMAIN tokens :
       /\ tokens[i] # <<>>
       /\ AllSpace(tokens[i]) \/ NoSpace(tokens[i])

\* a whitespace token, then a word given by the flush at the end of the
\* stream, and a stream whose word was given by the completion flush
C23_Witness ==
  /\ pc = "returned"
  /\ sent = <<Rec(TRUE, <<"b">>, "true"), Rec(TRUE, <<SP, SP>>, "false"), Rec(TRUE, <<"a">>, "false")>>
  /\ tail = <<>>
  /\ tokens = << <<"b">>, <<SP, SP>>, <<"a">> >>

\* no record follows the first record with a completion flag
NoRecordAfterDone ==
  \A i, j \in DOMAIN sent :
    (i < j /\ IsRecord(sent[i]) /\ sent[i].done = "true") => ~IsRecord(sent[j])

\* C22: on a stream where no record follows the first record with a
\* completion flag, when both readers have returned the concatenation of
\* the tokens of ollamaChatStreamWordByWord is that of the tokens of
\* ollamaChatStream; before that it lacks only the pending text
C22_ReadersAgree ==
  NoRecordAfterDone =>
    Flatten(chat.tokens) = (IF pc = "returned" THEN Flatten(tokens)
                            ELSE Flatten(tokens) \o pending)

\* both have returned, ollamaChatStream on the completion flag, with
\* different tokens: "Bonjour", " " and "Bon", "jour "
C22_Witness ==
  /\ NoRecordAfterDone
  /\ pc = "returned"
  /\ chat.pc = "returned"
  /\ sent = <<Rec(TRUE, Bon, "false"), Rec(TRUE, Jour, "true"), Raw(<<"{", QUOTE, "a">>)>>
  /\ tokens = << <<"B", "o", "n", "j", "o", "u", "r">>, <<SP>> >>
  /\ chat.tokens = <<Bon, Jour>>

\* ------------------------------------------------- claims on the chat page
Sends == 1..MaxSends

\* the messages of kind k that belong to send i
MessagesOf(i, k) == { n \in DOMAIN messages : messages[n].of = i /\ messages[n].kind = k }

\* the content of the assistant message that send i streams into
StreamContent(msgs, i) ==
  LET ns == { n \in DOMAIN msgs : msgs[n].of = i /\ msgs[n].kind = "stream" }
  IN IF ns = {} THEN <<>> ELSE msgs[CHOOSE n \in ns : TRUE].content

Failures == {"FetchFailure", "HTTP", "NO_STREAM_BODY", "TransportFailure", "TIMEOUT"}

\* C13: at no time are two streaming reads in flight (suspended at an await
\* with a signal that is not aborted), whatever the sequence of send, Stop,
\* completion, error and timeout events
C13_SingleReadInFlight ==
  \A i, j \in Sends : (InFlight(i) /\ InFlight(j)) => i = j

\* C20: once a handleSend call in Ollama mode has ended, no step changes
\* the content of the assistant message of that send
C20_NoTokenAfterEnd ==
  [][\A i \in Sends :
       (calls[i].hs = "ended" /\ calls[i].mode = "ollama")
         => StreamContent(messages', i) = StreamContent(messages, i)]_vars

\* C17: a send whose read was cancelled has exactly one "stopped" message
\* and no error message; a send whose read failed otherwise (or timed out)
\* has exactly one error message, naming the configured model, and no
\* "stopped" message; a send that has not ended, or whose read returned,
\* has neither
C17_OutcomeMessages ==
  \A i \in Sends :
    LET r == calls[i].result
    IN /\ Cardinality(MessagesOf(i, "stopped")) = (IF r = "AbortError" THEN 1 ELSE 0)
       /\ Cardinality(MessagesOf(i, "error")) = (IF r \in Failures THEN 1 ELSE 0)
       /\ \A n \in MessagesOf(i, "error") :
            /\ messages[n].content.model = OLLAMA_MODEL
            /\ messages[n].content.detail = r

C17_Witness ==
  \E i, j \in Sends :
    /\ calls[i].result = "AbortError"
    /\ calls[j].result \in Failures
    /\ MessagesOf(i, "stopped") # {}
    /\ MessagesOf(j, "error") # {}

\* C15: the reader state and the tokens of every invocation are those of a
\* reader that started empty and read this invocation's bytes only
C15_PerInvocationState ==
  \A i \in Sends :
    LET c == calls[i]
        own == ReadStep(NewReader, SubSeq(c.body, 1, c.pos))
    IN /\ c.rd.buffer = own.buffer
       /\ c.rd.pending = own.pending
       /\ c.rd.tokens = (IF c.pc = "returned" THEN FinalFlush(own.pending, own.tokens)
                         ELSE own.tokens)

C15_Witness ==
  \E i, j \in Sends :
    /\ i < j
    /\ calls[i].result = "AbortError"
    /\ calls[i].rd.pending = Bon
    /\ calls[i].rd.buffer # <<>>
    /\ calls[j].pc = "returned"
    /\ calls[j].rd.tokens # <<>>

\* C14: a step in which an invocation emits tokens emits all the tokens of
\* the bytes it consumes in that step (one whole chunk, or the final flush)
\* and no other invocation emits a token in that step
C14_ChunkAtomicity ==
  [][\A i \in Sends :
       calls'[i].rd.tokens # calls[i].rd.tokens =>
         /\ \A j \in Sends \ {i} : calls'[j].rd = calls[j].rd /\ calls'[j].acc = calls[j].acc
         /\ \/ calls'[i].rd = ReadStep(calls[i].rd,
                                       SubSeq(calls[i].body, calls[i].pos + 1, calls'[i].pos))
            \/ /\ calls'[i].pc = "returned"
               /\ calls'[i].rd.tokens = FinalFlush(calls[i].rd.pending, calls[i].rd.tokens)]_vars

C14_Witness ==
  \E i, j \in Sends :
    /\ i # j
    /\ InFlight(i) /\ InFlight(j)
    /\ Len(calls[i].rd.tokens) >= 2
    /\ calls[j].rd.tokens # <<>>

\* C21: a step that ends a handleSend call leaves isTyping false and
\* abortRef cleared, and every handleSend call that awaits its read ends,
\* even if the read never settles (the FAQ path ends within the Send step)
C21_HandleSendEnds ==
  /\ [][\A i \in Sends :
          (calls[i].hs # "ended" /\ calls'[i].hs = "ended") =>
            (isTyping' = FALSE /\ abortRef' = 0)]_vars
  /\ \A i \in Sends : (calls[i].hs = "awaiting") ~> (calls[i].hs = "ended")

\* a call ended by the timer while its fetch was still pending
C21_Witness ==
  \E i \in Sends :
    /\ calls[i].hs = "ended"
    /\ calls[i].result = "TIMEOUT"
    /\ calls[i].pc = "fetching"
    /\ ~isTyping
    /\ abortRef = 0

\* ------------------------------------------------ claims on the ticket route
\* C16: a PDF is sent only for a retrieved payment intent of status
\* "succeeded"; a request answered for an intent of any other status has
\* status 403 and no PDF; with the Stripe key missing, or a retrieval that
\* fails, the answer has an error status and no PDF
C16_TicketOnlyWhenPaid ==
  /\ ticket.sent = "pdf" => (ticket.key /\ ticket.stripe = "succeeded")
  /\ ticket.pc # "done" => ticket.sent = "none"
  /\ (ticket.pc = "done" /\ ~ticket.key) => (ticket.status = 500 /\ ticket.sent = "text")
  /\ (ticket.pc = "done" /\ ticket.key /\ safeStr(ticket.param, 100) # <<>>) =>
       /\ ticket.stripe = "throws" => (ticket.status = 500 /\ ticket.sent = "text")
       /\ ticket.stripe \in IntentStatuses \ {"succeeded"} =>
            (ticket.status = 403 /\ ticket.sent = "text")

C16_Witness ==
  /\ ticket.pc = "done"
  /\ ticket.stripe = "succeeded"
  /\ ticket.sent = "pdf"
  /\ ticket.status = 200

\* ------------------------------------------------ claims on the payment form
\* the one path of handlePay on which the payment went through
PaidPath ==
  /\ pay.stripe /\ pay.card
  /\ Trim(pay.name) # <<>> /\ Trim(pay.email) # <<>>
  /\ pay.server = "ok" /\ pay.secret /\ pay.id
  /\ pay.confirm = "succeeded"

\* C24: onSuccess is called at most once, with the paymentIntentId, and
\* only when createPaymentIntent returned both values and confirmCardPayment
\* gave no error and the status "succeeded"; when handlePay has ended on any
\* other path onSuccess was not called; busy is false when handlePay has
\* ended
C24_OnSuccessOnlyWhenPaid ==
  /\ pay.onSuccess \in {<<>>, <<"paymentIntentId">>}
  /\ pay.onSuccess # <<>> => (PaidPath /\ pay.pc = "done")
  /\ (pay.pc = "done" /\ ~PaidPath) => pay.onSuccess = <<>>
  /\ pay.pc = "done" => ~pay.busy
  /\ pay.pc \in {"creating", "confirming"} => pay.busy

C24_Witness ==
  /\ pay.pc = "done"
  /\ PaidPath
  /\ pay.onSuccess = <<"paymentIntentId">>
  /\ ~pay.busy

\* ----------------------------------------- claims on the session data (App)
\* the getProfile calls in flight, and the runs in progress
ProfilesInFlight == { k \in 1..MaxRuns : auth.runs[k].getProfile = "pending" }
RunsInProgress == { k \in 1..MaxRuns : auth.runs[k].run = "awaiting" }

\* C25: inFlightAuthRef holds the run in progress and is null when there
\* is none, at most one run is in progress, and at most one getProfile
\* call is in flight
C25_SingleFlight ==
  /\ RunsInProgress = (IF auth.inFlightAuthRef = 0 THEN {} ELSE {auth.inFlightAuthRef})
  /\ Cardinality(ProfilesInFlight) <= 1

====
